---- MODULE Spec2Model ----
(***************************************************************************)
(* A model of the LS-8 emulator of cpu.py: the CPU object (ram, register,  *)
(* flag, pc, sp), the locals of CPU.run (running, instruction, operand_a,  *)
(* operand_b), the lines printed by PRN, and the exception, if any, that   *)
(* left run().  One action per branch of the if-chain of run(), each a     *)
(* whole loop iteration: the three fetches, then the branch.               *)
(***************************************************************************)
EXTENDS Integers, Sequences, FiniteSets, TLC

VARIABLES ram, register, flag, pc, sp,
          running, instruction, operand_a, operand_b,
          output, raised

vars == <<ram, register, flag, pc, sp,
          running, instruction, operand_a, operand_b, output, raised>>

cpu == <<ram, register, flag, pc, sp>>

\* ------------------------------------------------------------ constants
HLT == 1
PRN == 71
LDI == 130
MUL == 162
ADD == 160
PUSH == 69
POP == 70
CALL == 80
IRET == 19
RET == 17
CMP == 167
JMP == 84
JNE == 86
JEQ == 85

Handled == {HLT, CALL, RET, PUSH, POP, LDI, MUL, ADD, CMP, JMP, JNE, JEQ, PRN}

RamSize == 256
NumRegisters == 8
InitialSP == 243

\* The values CMP assigns to self.flag.
FL_E == 1
FL_L == 4
FL_G == 2

\* A local of run() that no iteration has assigned yet.
Unbound == 0 - 1

\* The longest output the model follows (PRN is disabled beyond it).
MaxOut == 3

Byte == 0 .. 255

\* ------------------------------------------------- Python list indexing
\* lst[i] raises IndexError unless -len <= i < len; a negative i counts
\* from the end of the list.
InRange(address) == address >= 0 - RamSize /\ address < RamSize
Cell(address) == IF address < 0 THEN address + RamSize ELSE address

RegInRange(index) == index >= 0 - NumRegisters /\ index < NumRegisters
Reg(index) == IF index < 0 THEN index + NumRegisters ELSE index

ram_read(address) == ram[Cell(address)]

\* self.flag is the list [0]*8 until the first CMP, and an int after it.
FlagList == [tag |-> "list", val |-> [i \in 1 .. 8 |-> 0]]
FlagInt(n) == [tag |-> "int", val |-> n]

\* flag_check as the truth test `if self.flag` of an int.
flag_check_Truthy == flag.tag = "int" /\ flag.val # 0

flag_check == flag.tag = "int" /\ flag.val = 1

\* ------------------------------------------------------------ the ALU
\* The result of alu(op, reg_a, reg_b): the registers and the flag it
\* leaves, and the exception it raises ("none": it returns).
\* CMP that sets the bit of its outcome and keeps the bits already set.
CmpFlag_Sticky(a, b) ==
    LET old == IF flag.tag = "int" THEN flag.val ELSE 0
        bit == IF a = b THEN FL_E ELSE IF a < b THEN FL_L ELSE FL_G
    IN  FlagInt(IF (old \div bit) % 2 = 1 THEN old ELSE old + bit)

CmpFlag(a, b) ==
    LET f1 == IF a = b THEN FlagInt(FL_E) ELSE flag
        f2 == IF a < b THEN FlagInt(FL_L) ELSE f1
        f3 == IF a > b THEN FlagInt(FL_G) ELSE f2
    IN  f3

alu(op, reg_a, reg_b) ==
    LET idxOK == RegInRange(reg_a) /\ RegInRange(reg_b)
        a == register[Reg(reg_a)]
        b == register[Reg(reg_b)]
    IN  IF op \in {"ADD", "MUL", "CMP"} /\ ~idxOK
        THEN [register |-> register, flag |-> flag, raised |-> "IndexError"]
        ELSE IF op = "ADD"
        THEN [register |-> [register EXCEPT ![Reg(reg_a)] = a + b],
              flag |-> flag, raised |-> "Exception"]
        ELSE IF op = "MUL"
        THEN [register |-> [register EXCEPT ![Reg(reg_a)] = a * b],
              flag |-> flag, raised |-> "Exception"]
        ELSE IF op = "CMP"
        THEN [register |-> register, flag |-> CmpFlag(a, b), raised |-> "none"]
        ELSE [register |-> register, flag |-> flag, raised |-> "Exception"]

\* ------------------------------------------------------------ programs
Pad(n) == [i \in 1 .. n |-> 0]

\* load(): the bytes of the file, in order, from address 0; the rest of
\* the 256 cells keep the 0 of the constructor.
load(program) ==
    [address \in 0 .. RamSize - 1 |->
        IF address < Len(program) THEN program[address + 1] ELSE 0]

\* `body` loaded at address `at`, after `head` and the zero bytes between.
Place(head, at, body) == head \o Pad(at - Len(head)) \o body

\* Register values the arithmetic and branch programs are run on.
Samples == {0, 1, 2, 10, 16, 250, 255}

\* LDI Rn,imm ; PRN Rn ; HLT
LdiPrn == {<<LDI, n, imm, PRN, n, HLT>> : n \in 0 .. 7, imm \in Byte}

\* LDI R0,a ; LDI R1,b ; op R0,R1 ; PRN R0 ; HLT
Arith ==
    {<<LDI, 0, a, LDI, 1, b, op, 0, 1, PRN, 0, HLT>> :
        a \in Samples, b \in Samples, op \in {ADD, MUL}}

\* LDI R0,a ; LDI R1,b ; CMP R0,R1 ; HLT
Compare == {<<LDI, 0, a, LDI, 1, b, CMP, 0, 1, HLT>> : a \in Byte, b \in Byte}

\* A CMP after a CMP with another outcome.
Recompare ==
    {<<LDI, 0, a, LDI, 1, b, CMP, 0, 1, CMP, 1, 0, CMP, 2, 1, CMP, 1, 1, HLT>> :
        a \in Samples, b \in Samples}

\* LDI R2,20 ; [LDI R0,a ; LDI R1,b ; CMP R0,R1 ;] j R2 ; PRN R0 ; HLT,
\* and at 20: PRN R1 ; HLT
Branch ==
    {Place(<<LDI, 2, 20>> \o pre \o <<j, 2, PRN, 0, HLT>>, 20, <<PRN, 1, HLT>>) :
        pre \in {<<>>} \cup {<<LDI, 0, a, LDI, 1, b, CMP, 0, 1>> :
                                a \in {1, 2}, b \in {1, 2}},
        j \in {JEQ, JNE, JMP}}

\* LDI Ra,v ; PUSH Ra ; POP Rb ; HLT
PushPop ==
    {<<LDI, ab[1], v, PUSH, ab[1], POP, ab[2], HLT>> :
        v \in Byte, ab \in {<<0, 1>>, <<3, 3>>, <<7, 0>>}}

\* LDI R0,t ; LDI R1,v ; CALL R0 ; PRN R2 ; HLT, and at t the subroutine
\* PUSH R1 ; POP R2 ; RET
CallRet ==
    {Place(<<LDI, 0, t, LDI, 1, v, CALL, 0, PRN, 2, HLT>>, t,
           <<PUSH, 1, POP, 2, RET>>) : t \in {11, 100, 200}, v \in Samples}

\* Two nested calls: main calls f at 20, f calls g at 40.
Nested ==
    {Place(Place(<<LDI, 0, 20, LDI, 1, 40, CALL, 0, PRN, 2, HLT>>, 20,
                 <<PUSH, 0, CALL, 1, POP, 3, RET>>), 40,
           <<LDI, 2, v, RET>>) : v \in Samples}

\* Loops that move sp through the whole of memory and out of it: PUSH,
\* PUSH/POP/PUSH and CALL loops in the last cells that can be fetched, and
\* at 0 a CALL loop, a POP loop and a RET loop (ram[sp] = 0, R0 = R1 = 0).
StackLoops ==
    { Place(<<LDI, 2, 250, LDI, 0, 7, JMP, 2>>, 250, <<PUSH, 0, JMP, 2>>),
      Place(<<LDI, 2, 246, LDI, 0, 7, JMP, 2>>, 246,
            <<PUSH, 0, POP, 1, PUSH, 1, JMP, 2>>),
      Place(<<LDI, 0, 250, JMP, 0>>, 250, <<CALL, 0>>),
      <<CALL, 0>>,
      <<POP, 0, JMP, 1>>,
      <<RET>> }

\* PRN R0 ; JMP R0 with R0 = 0: prints for ever.
PrintLoop == {<<PRN, 0, JMP, 0>>}

\* Bytes that no branch of run() handles, first or after an instruction.
BadOpcode ==
    {<<x>> : x \in {0, 2, IRET, 255}} \cup {<<LDI, 0, 5, x, 0, HLT>> : x \in {0, IRET}}

\* A jump to one of the last two cells, where the fetch leaves memory.
HighPc ==
    {Place(<<LDI, 0, t, JMP, 0>>, t, <<x>>) :
        t \in {253, 254, 255}, x \in {HLT, LDI, 0}}

\* A register operand that is no register index.
BadRegister ==
    {<<op, n, 0, HLT>> : op \in Handled \ {HLT, RET}, n \in {8, 255}}
    \cup {<<op, 0, 9, HLT>> : op \in {ADD, MUL, CMP}}
    \cup {<<CMP, 0, 0, j, 8, HLT>> : j \in {JEQ, JNE}}

Programs ==
    LdiPrn \cup Arith \cup Recompare \cup Branch \cup PushPop
    \cup CallRet \cup Nested \cup StackLoops \cup PrintLoop \cup BadOpcode \cup HighPc
    \cup BadRegister

\* ------------------------------------------------------------ Init
\* The state run() starts in: the CPU as __init__ builds it, then load().
Loaded(programs) ==
    /\ ram \in {load(p) : p \in programs}
    /\ register = [i \in 0 .. NumRegisters - 1 |-> 0]
    /\ flag = FlagList
    /\ pc = 0
    /\ sp = InitialSP
    /\ running = TRUE
    /\ instruction = Unbound
    /\ operand_a = Unbound
    /\ operand_b = Unbound
    /\ output = <<>>
    /\ raised = "none"

Init == Loaded(Programs)

InitCompare == Loaded(Programs \cup Compare)

\* ------------------------------------------------------------ the loop
Looping == running /\ raised = "none"

\* The three ram_read calls at the top of an iteration all return.
Fetch ==
    /\ Looping
    /\ InRange(pc) /\ InRange(pc + 1) /\ InRange(pc + 2)
    /\ instruction' = ram_read(pc)
    /\ operand_a' = ram_read(pc + 1)
    /\ operand_b' = ram_read(pc + 2)

Fetched(op) == Fetch /\ ram_read(pc) = op

\* A fetch that reads the operands only after the opcode is known to need
\* them: at the end of memory HLT still halts.
FetchFails_LazyOperands ==
    /\ Looping
    /\ ~(InRange(pc) /\ InRange(pc + 1) /\ InRange(pc + 2))
    /\ instruction' = IF InRange(pc) THEN ram_read(pc) ELSE instruction
    /\ operand_a' = operand_a
    /\ operand_b' = operand_b
    /\ IF InRange(pc) /\ ram_read(pc) = HLT
       THEN running' = FALSE /\ raised' = "none"
       ELSE running' = running /\ raised' = "IndexError"
    /\ UNCHANGED <<ram, register, flag, pc, sp, output>>

\* One of the three ram_read calls raises IndexError; the locals assigned
\* before it keep their new values.
FetchFails ==
    /\ Looping
    /\ ~(InRange(pc) /\ InRange(pc + 1) /\ InRange(pc + 2))
    /\ instruction' = IF InRange(pc) THEN ram_read(pc) ELSE instruction
    /\ operand_a' = IF InRange(pc) /\ InRange(pc + 1)
                    THEN ram_read(pc + 1) ELSE operand_a
    /\ operand_b' = operand_b
    /\ raised' = "IndexError"
    /\ UNCHANGED <<ram, register, flag, pc, sp, running, output>>

\* HLT that steps past its own byte.
ExecHLT_Advances ==
    /\ Fetched(HLT)
    /\ running' = FALSE
    /\ pc' = pc + 1
    /\ UNCHANGED <<ram, register, flag, sp, output, raised>>

ExecHLT ==
    /\ Fetched(HLT)
    /\ running' = FALSE
    /\ UNCHANGED <<ram, register, flag, pc, sp, output, raised>>

\* LDI that leaves out a register it does not have.
ExecLDI_SkipsBadRegister ==
    /\ Fetched(LDI)
    /\ register' = IF RegInRange(operand_a')
                   THEN [register EXCEPT ![Reg(operand_a')] = operand_b']
                   ELSE register
    /\ pc' = pc + 3
    /\ raised' = "none"
    /\ UNCHANGED <<ram, flag, sp, running, output>>

\* LDI that stores the register number instead of the immediate.
ExecLDI_StoresIndex ==
    /\ Fetched(LDI)
    /\ IF RegInRange(operand_a')
       THEN /\ register' = [register EXCEPT ![Reg(operand_a')] = operand_a']
            /\ pc' = pc + 3
            /\ raised' = "none"
       ELSE /\ raised' = "IndexError"
            /\ UNCHANGED <<register, pc>>
    /\ UNCHANGED <<ram, flag, sp, running, output>>

ExecLDI ==
    /\ Fetched(LDI)
    /\ IF RegInRange(operand_a')
       THEN /\ register' = [register EXCEPT ![Reg(operand_a')] = operand_b']
            /\ pc' = pc + 3
            /\ raised' = "none"
       ELSE /\ raised' = "IndexError"
            /\ UNCHANGED <<register, pc>>
    /\ UNCHANGED <<ram, flag, sp, running, output>>

\* PRN that advances as a two-operand instruction does.
ExecPRN_AdvancesThree ==
    /\ Fetched(PRN)
    /\ Len(output) < MaxOut
    /\ IF RegInRange(operand_a')
       THEN /\ output' = Append(output, register[Reg(operand_a')])
            /\ pc' = pc + 3
            /\ raised' = "none"
       ELSE /\ raised' = "IndexError"
            /\ UNCHANGED <<output, pc>>
    /\ UNCHANGED <<ram, register, flag, sp, running>>

ExecPRN ==
    /\ Fetched(PRN)
    /\ Len(output) < MaxOut
    /\ IF RegInRange(operand_a')
       THEN /\ output' = Append(output, register[Reg(operand_a')])
            /\ pc' = pc + 2
            /\ raised' = "none"
       ELSE /\ raised' = "IndexError"
            /\ UNCHANGED <<output, pc>>
    /\ UNCHANGED <<ram, register, flag, sp, running>>

\* CALL that saves the address of its own operand byte.
ExecCALL_SavesOperand ==
    /\ Fetched(CALL)
    /\ sp' = sp - 1
    /\ IF ~InRange(sp')
       THEN /\ raised' = "IndexError"
            /\ UNCHANGED <<ram, pc>>
       ELSE /\ ram' = [ram EXCEPT ![Cell(sp')] = pc + 1]
            /\ IF RegInRange(operand_a')
               THEN /\ pc' = register[Reg(operand_a')]
                    /\ raised' = "none"
               ELSE /\ raised' = "IndexError"
                    /\ UNCHANGED pc
    /\ UNCHANGED <<register, flag, running, output>>

ExecCALL ==
    /\ Fetched(CALL)
    /\ sp' = sp - 1
    /\ IF ~InRange(sp')
       THEN /\ raised' = "IndexError"
            /\ UNCHANGED <<ram, pc>>
       ELSE /\ ram' = [ram EXCEPT ![Cell(sp')] = pc + 2]
            /\ IF RegInRange(operand_a')
               THEN /\ pc' = register[Reg(operand_a')]
                    /\ raised' = "none"
               ELSE /\ raised' = "IndexError"
                    /\ UNCHANGED pc
    /\ UNCHANGED <<register, flag, running, output>>

\* RET that also takes the flags from the stack cell it pops.
ExecRET_PopsFlags ==
    /\ Fetched(RET)
    /\ IF InRange(sp)
       THEN /\ pc' = ram[Cell(sp)]
            /\ flag' = FlagInt(ram[Cell(sp)])
            /\ sp' = sp + 1
            /\ raised' = "none"
       ELSE /\ raised' = "IndexError"
            /\ UNCHANGED <<pc, sp, flag>>
    /\ UNCHANGED <<ram, register, running, output>>

ExecRET ==
    /\ Fetched(RET)
    /\ IF InRange(sp)
       THEN /\ pc' = ram[Cell(sp)]
            /\ sp' = sp + 1
            /\ raised' = "none"
       ELSE /\ raised' = "IndexError"
            /\ UNCHANGED <<pc, sp>>
    /\ UNCHANGED <<ram, register, flag, running, output>>

ExecPUSH ==
    /\ Fetched(PUSH)
    /\ sp' = sp - 1
    /\ IF RegInRange(operand_a') /\ InRange(sp')
       THEN /\ ram' = [ram EXCEPT ![Cell(sp')] = register[Reg(operand_a')]]
            /\ pc' = pc + 2
            /\ raised' = "none"
       ELSE /\ raised' = "IndexError"
            /\ UNCHANGED <<ram, pc>>
    /\ UNCHANGED <<register, flag, running, output>>

\* POP that zeroes the cell it has popped.
ExecPOP_ClearsCell ==
    /\ Fetched(POP)
    /\ IF InRange(sp) /\ RegInRange(operand_a')
       THEN /\ register' = [register EXCEPT ![Reg(operand_a')] = ram[Cell(sp)]]
            /\ ram' = [ram EXCEPT ![Cell(sp)] = 0]
            /\ sp' = sp + 1
            /\ pc' = pc + 2
            /\ raised' = "none"
       ELSE /\ raised' = "IndexError"
            /\ UNCHANGED <<register, ram, sp, pc>>
    /\ UNCHANGED <<flag, running, output>>

\* POP that increments sp before reading the stack.
ExecPOP_IncrementsFirst ==
    /\ Fetched(POP)
    /\ IF InRange(sp + 1) /\ RegInRange(operand_a')
       THEN /\ register' = [register EXCEPT ![Reg(operand_a')] = ram[Cell(sp + 1)]]
            /\ sp' = sp + 1
            /\ pc' = pc + 2
            /\ raised' = "none"
       ELSE /\ raised' = "IndexError"
            /\ UNCHANGED <<register, sp, pc>>
    /\ UNCHANGED <<ram, flag, running, output>>

ExecPOP ==
    /\ Fetched(POP)
    /\ IF InRange(sp) /\ RegInRange(operand_a')
       THEN /\ register' = [register EXCEPT ![Reg(operand_a')] = ram[Cell(sp)]]
            /\ sp' = sp + 1
            /\ pc' = pc + 2
            /\ raised' = "none"
       ELSE /\ raised' = "IndexError"
            /\ UNCHANGED <<register, sp, pc>>
    /\ UNCHANGED <<ram, flag, running, output>>

\* A branch that calls alu and then advances pc by 3, unless alu raised.
ExecALU(op) ==
    LET r == alu(op, operand_a', operand_b')
    IN  /\ register' = r.register
        /\ flag' = r.flag
        /\ raised' = r.raised
        /\ pc' = IF r.raised = "none" THEN pc + 3 ELSE pc
        /\ UNCHANGED <<ram, sp, running, output>>

ExecMUL == Fetched(MUL) /\ ExecALU("MUL")

ExecADD == Fetched(ADD) /\ ExecALU("ADD")

ExecCMP == Fetched(CMP) /\ ExecALU("CMP")

\* pc := register[reg_num], or IndexError.
Jump(reg_num) ==
    IF RegInRange(reg_num)
    THEN pc' = register[Reg(reg_num)] /\ raised' = "none"
    ELSE raised' = "IndexError" /\ UNCHANGED pc

ExecJMP ==
    /\ Fetched(JMP)
    /\ Jump(ram_read(pc + 1))
    /\ UNCHANGED <<ram, register, flag, sp, running, output>>

ExecJNE ==
    /\ Fetched(JNE)
    /\ IF ~flag_check
       THEN Jump(ram[Cell(pc + 1)])
       ELSE pc' = pc + 2 /\ raised' = "none"
    /\ UNCHANGED <<ram, register, flag, sp, running, output>>

ExecJEQ ==
    /\ Fetched(JEQ)
    /\ IF flag_check
       THEN Jump(ram[Cell(pc + 1)])
       ELSE pc' = pc + 2 /\ raised' = "none"
    /\ UNCHANGED <<ram, register, flag, sp, running, output>>

\* An unhandled byte taken as the end of the program.
NoBranch_Stops ==
    /\ Fetch
    /\ ram_read(pc) \notin Handled
    /\ running' = FALSE
    /\ UNCHANGED <<ram, register, flag, pc, sp, output, raised>>

\* No branch of the if-chain matches the byte: the iteration ends having
\* assigned only the three locals, and the loop goes round again.
NoBranch ==
    /\ Fetch
    /\ ram_read(pc) \notin Handled
    /\ UNCHANGED <<ram, register, flag, pc, sp, running, output, raised>>

\* run() called on an engine that has started over at address 0.
Rerun_ResetsPc ==
    /\ ~running /\ raised = "none"
    /\ running' = TRUE
    /\ pc' = 0
    /\ instruction' = Unbound
    /\ operand_a' = Unbound
    /\ operand_b' = Unbound
    /\ UNCHANGED <<ram, register, flag, sp, output, raised>>

\* run() called again on the engine a run() has returned from: a new frame
\* (running = True, the other locals not yet assigned) on the same CPU.
Rerun ==
    /\ ~running /\ raised = "none"
    /\ running' = TRUE
    /\ instruction' = Unbound
    /\ operand_a' = Unbound
    /\ operand_b' = Unbound
    /\ UNCHANGED <<ram, register, flag, pc, sp, output, raised>>

\* One iteration of the while loop.
Iteration ==
    \/ FetchFails
    \/ ExecHLT
    \/ ExecCALL
    \/ ExecRET
    \/ ExecPUSH
    \/ ExecPOP
    \/ ExecLDI
    \/ ExecMUL
    \/ ExecADD
    \/ ExecCMP
    \/ ExecJMP
    \/ ExecJNE
    \/ ExecJEQ
    \/ ExecPRN
    \/ NoBranch

Next == Iteration \/ Rerun

Spec == Init /\ [][Next]_vars

\* Every pair of register values under CMP.
SpecCompare == InitCompare /\ [][Next]_vars

\* run() is one thread that never waits: an iteration that can run, runs.
FairSpec == Init /\ [][Next]_vars /\ WF_vars(Iteration)

\* ------------------------------------------------------------ claims
\* The next iteration fetches `op` at pc (its three reads succeed).
AtOp(op) ==
    /\ Looping
    /\ InRange(pc) /\ InRange(pc + 1) /\ InRange(pc + 2)
    /\ ram_read(pc) = op

\* The register operand of the instruction at pc, and its second operand.
OpA == ram_read(pc + 1)
OpB == ram_read(pc + 2)

RegIndex == 0 .. NumRegisters - 1

\* The last iteration executed `op` and returned to the top of the loop.
Just(op) == Looping /\ instruction = op

\* ram holds, from address 0, one of `programs` (as loaded).
IsProgram(programs) ==
    \E p \in programs : \A i \in 1 .. Len(p) : ram[i - 1] = p[i]

\* C1: LDI Rn,imm immediately followed by PRN Rn (Rn in 0..7) prints
\* exactly imm, and LDI changes no register but Rn.
C1_LdiThenPrn ==
    [][ /\ (AtOp(LDI) /\ OpA \in RegIndex) =>
              /\ register'[OpA] = OpB
              /\ \A r \in RegIndex \ {OpA} : register'[r] = register[r]
        /\ (Just(LDI) /\ operand_a \in RegIndex /\ AtOp(PRN) /\ OpA = operand_a) =>
              /\ output' = Append(output, operand_b)
              /\ raised' = "none"
      ]_vars

C1_Witness ==
    /\ Just(PRN) /\ operand_a = 7
    /\ ram[0] = LDI /\ ram[1] = 7 /\ ram[2] = 255 /\ pc = 5
    /\ output = <<255>>

\* C2 (as claimed): ADD and MUL leave (a+b) mod 256 and (a*b) mod 256 in
\* Ra, and no register ever holds a value outside 0..255.
C2_Claimed ==
    [][ /\ (AtOp(ADD) /\ OpA \in RegIndex /\ OpB \in RegIndex) =>
              register'[OpA] = (register[OpA] + register[OpB]) % 256
        /\ (AtOp(MUL) /\ OpA \in RegIndex /\ OpB \in RegIndex) =>
              register'[OpA] = (register[OpA] * register[OpB]) % 256
        /\ \A r \in RegIndex : register'[r] \in Byte
      ]_vars

\* C3 (as claimed): an ADD, MUL or CMP with register operands completes
\* without raising, and run() goes on with pc advanced by 3.
C3_Claimed ==
    [][ \A op \in {ADD, MUL, CMP} :
          (AtOp(op) /\ OpA \in RegIndex /\ OpB \in RegIndex) =>
              raised' = "none" /\ pc' = pc + 3
      ]_vars

\* C4: PUSH Ra with a free stack cell below sp (sp - 1 in 0..255) stores
\* v = register[Ra] there, decrements sp and changes no register; POP Rb
\* right after it leaves v in Rb and sp back at its value before the PUSH.
C4_PushPopRoundTrip ==
    [][ /\ (AtOp(PUSH) /\ OpA \in RegIndex /\ sp - 1 \in 0 .. RamSize - 1) =>
              /\ sp' = sp - 1
              /\ ram'[sp'] = register[OpA]
              /\ register' = register
              /\ raised' = "none"
        /\ (Just(PUSH) /\ operand_a \in RegIndex /\ sp \in 0 .. RamSize - 1
              /\ AtOp(POP) /\ OpA \in RegIndex) =>
              /\ register'[OpA] = register[operand_a]
              /\ sp' = sp + 1
              /\ raised' = "none"
      ]_vars

C4_Witness ==
    /\ Just(POP) /\ operand_a = 1
    /\ ram[3] = PUSH /\ ram[4] = 0 /\ ram[5] = POP /\ pc = 7
    /\ register[0] = 255 /\ register[1] = 255
    /\ sp = InitialSP

FlagBit(f, mask) == f.tag = "int" /\ (f.val \div mask) % 2 = 1

\* C6: after CMP Ra,Rb exactly one of Equal, LessThan, GreaterThan is set,
\* the one that matches register[Ra] against register[Rb], and no other
\* bit of the flags is, whatever the flags held before.
C6_CmpSetsOneFlag ==
    [][ (AtOp(CMP) /\ OpA \in RegIndex /\ OpB \in RegIndex) =>
          /\ FlagBit(flag', FL_E) <=> (register[OpA] = register[OpB])
          /\ FlagBit(flag', FL_L) <=> (register[OpA] < register[OpB])
          /\ FlagBit(flag', FL_G) <=> (register[OpA] > register[OpB])
          /\ flag'.tag = "int" /\ flag'.val \in {FL_E, FL_L, FL_G}
      ]_vars

C6_Witness ==
    /\ IsProgram(Recompare) /\ Just(CMP) /\ pc = 12
    /\ register[0] = 1 /\ register[1] = 2
    /\ operand_a = 1 /\ operand_b = 0
    /\ flag = FlagInt(FL_G)

\* C7: JEQ Rn sets pc to register[Rn] when Equal is set and advances pc by
\* 2 when it is not; JNE Rn sets pc to register[Rn] when Equal is not set
\* and advances pc by 2 when it is; before any CMP Equal is not set.
C7_BranchOnEqual ==
    [][ /\ (AtOp(JEQ) /\ OpA \in RegIndex) =>
              /\ pc' = IF FlagBit(flag, FL_E) THEN register[OpA] ELSE pc + 2
              /\ raised' = "none"
        /\ (AtOp(JNE) /\ OpA \in RegIndex) =>
              /\ pc' = IF ~FlagBit(flag, FL_E) THEN register[OpA] ELSE pc + 2
              /\ raised' = "none"
      ]_vars

C7_Witness ==
    /\ IsProgram(Branch) /\ Just(JEQ)
    /\ flag = FlagInt(FL_L)
    /\ register[2] = 20 /\ pc = 14

\* C8: from the initial state with LDI R0,8 ; PRN R0 ; HLT loaded at 0,
\* run() comes to running = FALSE without an error, having printed exactly
\* 8, with pc at the HLT (address 5).
C8_RunsToHalt ==
    (ram = load(<<LDI, 0, 8, PRN, 0, HLT>>))
        ~> (~running /\ raised = "none" /\ output = <<8>> /\ pc = 5)

C8_Witness ==
    /\ ram = load(<<LDI, 0, 8, PRN, 0, HLT>>)
    /\ ~running /\ raised = "none" /\ instruction = HLT
    /\ output = <<8>> /\ pc = 5 /\ sp = InitialSP

\* C9 (as claimed): an iteration that fetches a byte no branch handles
\* fails with InvalidOpcode and changes none of pc, sp, registers, flags
\* and memory.
C9_Claimed ==
    [][ (Looping /\ InRange(pc) /\ InRange(pc + 1) /\ InRange(pc + 2)
            /\ ram_read(pc) \notin Handled) =>
          raised' = "InvalidOpcode" /\ UNCHANGED cpu
      ]_vars

\* C10 (as claimed): a fetch or a stack access at an address outside
\* 0..255 fails, and reads or writes no cell.
C10_Claimed ==
    [][ /\ (Looping /\ ~(pc \in 0 .. RamSize - 3)) => raised' = "IndexError"
        /\ ((AtOp(PUSH) \/ AtOp(CALL)) /\ sp - 1 \notin 0 .. RamSize - 1) =>
              raised' = "IndexError" /\ ram' = ram
        /\ ((AtOp(POP) \/ AtOp(RET)) /\ sp \notin 0 .. RamSize - 1) =>
              raised' = "IndexError" /\ UNCHANGED <<register, pc>>
      ]_vars

\* The instructions that name a register, and those that name two.
RegOps == {LDI, PRN, ADD, MUL, CMP, PUSH, POP, CALL, JMP, JEQ, JNE}
TwoRegOps == {ADD, MUL, CMP}

\* The instruction at pc is `op` with a register operand outside 0..7.
BadRegAt(op) ==
    /\ AtOp(op)
    /\ (OpA \notin RegIndex \/ (op \in TwoRegOps /\ OpB \notin RegIndex))

\* JEQ or JNE at pc whose condition is false: it does not branch.
NotTaken(op) ==
    \/ (op = JEQ /\ ~FlagBit(flag, FL_E))
    \/ (op = JNE /\ FlagBit(flag, FL_E))

\* C11 (as claimed): every instruction that names a register and has a
\* register operand outside 0..7 fails and ends run().
C11_Claimed ==
    [][ \A op \in RegOps : BadRegAt(op) => raised' # "none" ]_vars

\* C11 (amended): such an instruction fails with IndexError and ends run(),
\* except a JEQ or JNE that does not branch, which never reads the register
\* and goes on at pc + 2.
C11_BadRegisterRaises ==
    [][ \A op \in RegOps :
          BadRegAt(op) =>
             IF NotTaken(op)
             THEN raised' = "none" /\ pc' = pc + 2
             ELSE raised' = "IndexError" /\ running' = running
      ]_vars

C11_Witness ==
    /\ instruction = JEQ /\ operand_a = 8
    /\ flag = FlagInt(FL_E) /\ pc = 3
    /\ raised = "IndexError"

\* run() has returned without an exception.
Halted == ~running /\ raised = "none"

\* C12: running a halted engine again changes none of pc, sp, registers,
\* flags and memory and prints nothing: the new run() starts at the HLT it
\* stopped on, executes it and stops there once more.
C12_HaltedStaysHalted ==
    [][ /\ Halted => (UNCHANGED <<cpu, output>> /\ AtOp(HLT)')
        /\ AtOp(HLT) => (UNCHANGED <<cpu, output>> /\ Halted')
      ]_vars

C12_Witness ==
    /\ Looping /\ instruction = Unbound
    /\ ram = load(<<LDI, 3, 7, PRN, 3, HLT>>)
    /\ pc = 5 /\ output = <<7>> /\ register[3] = 7

\* C13 (as claimed): pc is in 0..255 in every state of run().
C13_Claimed == pc \in 0 .. RamSize - 1

\* C14 (as claimed): sp is in 0..0xF3 in every state of run().
C14_Claimed == sp \in 0 .. InitialSP

\* The flags are after the step what they were before it.
FlagKept ==
    /\ flag'.tag = flag.tag
    /\ flag'.val = flag.val

LdiCmpPrnEffect ==
    /\ (AtOp(LDI) /\ OpA \in RegIndex) =>
          /\ pc' = pc + 3
          /\ register' = [register EXCEPT ![OpA] = OpB]
          /\ FlagKept /\ UNCHANGED <<ram, sp, output>>
    /\ (AtOp(CMP) /\ OpA \in RegIndex /\ OpB \in RegIndex) =>
          /\ pc' = pc + 3
          /\ UNCHANGED <<ram, register, sp, output>>
    /\ (AtOp(PRN) /\ OpA \in RegIndex) =>
          /\ pc' = pc + 2
          /\ FlagKept /\ UNCHANGED <<ram, register, sp>>

\* What PUSH and POP at pc do when `ok` holds of the stack pointer.
PushPopEffect(ok) ==
    /\ (AtOp(PUSH) /\ OpA \in RegIndex /\ ok) =>
          /\ pc' = pc + 2
          /\ sp' = sp - 1
          /\ ram' = [ram EXCEPT ![Cell(sp - 1)] = register[OpA]]
          /\ FlagKept /\ UNCHANGED <<register, output>>
    /\ (AtOp(POP) /\ OpA \in RegIndex /\ ok) =>
          /\ pc' = pc + 2
          /\ sp' = sp + 1
          /\ register' = [register EXCEPT ![OpA] = ram[Cell(sp)]]
          /\ FlagKept /\ UNCHANGED <<ram, output>>

C17_EagerFetch ==
    [][ /\ (Looping /\ pc \in 0 .. RamSize - 3) =>
              /\ instruction' = ram[pc]
              /\ operand_a' = ram[pc + 1]
              /\ operand_b' = ram[pc + 2]
        /\ (Looping /\ pc \in {RamSize - 2, RamSize - 1}) =>
              /\ raised' = "IndexError"
              /\ running' = TRUE
              /\ FlagKept /\ UNCHANGED <<ram, register, pc, sp, output>>
      ]_vars

C17_Witness ==
    /\ pc = RamSize - 2 /\ ram[pc] = HLT
    /\ instruction = HLT
    /\ running /\ raised = "IndexError"

\* C18: run() has returned without an exception exactly when the last
\* byte it fetched as an instruction was HLT; running goes from True to
\* False only in the iteration that executes HLT; and while run() is in
\* its loop another iteration can always be taken (short of the output
\* bound), so a program with no HLT and no error never leaves it.
C18_OnlyHltReturns ==
    /\ [](raised = "none" => (~running <=> instruction = HLT))
    /\ []((Looping /\ ~(AtOp(PRN) /\ Len(output) >= MaxOut)) => ENABLED Iteration)
    /\ [][ (running /\ ~running') => (AtOp(HLT) /\ raised' = "none") ]_vars

C18_Witness ==
    /\ IsProgram(CallRet) /\ Halted
    /\ instruction = HLT /\ pc = 10
    /\ register[2] = 250 /\ output = <<250>>

\* C19: a step that changes memory is the execution of a PUSH or a CALL,
\* it decrements sp and changes the one cell that ram[sp] then indexes, to
\* register[Rn] for PUSH and to pc + 2 for CALL; that cell can be one of
\* the program's own (the witness: the CALL loop at 0 has overwritten
\* itself).
C19_OnlyStackWrites ==
    [][ ram' # ram =>
          /\ AtOp(PUSH) \/ AtOp(CALL)
          /\ sp' = sp - 1
          /\ InRange(sp')
          /\ ram' = [ram EXCEPT ![Cell(sp')] =
                        IF AtOp(PUSH) THEN register[OpA] ELSE pc + 2]
      ]_vars

C19_Witness ==
    /\ Just(CALL) /\ pc = 0 /\ sp = 0
    /\ ram[0] = 2 /\ ram[1] = 2
    /\ \A c \in 2 .. InitialSP - 1 : ram[c] = 2

\* C20 (as claimed): an iteration that raises leaves pc, sp, registers,
\* flags and memory as they were when it began.
C20_Claimed ==
    [][ (raised = "none" /\ raised' # "none") =>
          (FlagKept /\ UNCHANGED <<ram, register, pc, sp>>)
      ]_vars

====
